---------------------------- MODULE Spec2Model ----------------------------
(***************************************************************************)
(* A model of the decis registry (src/src/lib.rs): a Registry of tags and  *)
(* Questions keyed by Uuid, and the Question entity with its additive      *)
(* context/options sets and its write-once decision.                       *)
(*                                                                         *)
(* Three specifications share the variables:                               *)
(*   Spec          a Registry driven by a caller (add_tag, add_question,   *)
(*                 get_question, the three by-identifier mutators);        *)
(*   QuestionSpec  one owned Question driven by a caller (add_context,     *)
(*                 add_option, set_decision and the accessors);            *)
(*   CopySpec      a Registry whose caller keeps the Question that         *)
(*                 get_question returned and mutates it.                   *)
(* `call` and `ret` record the last call made and what it returned.        *)
(***************************************************************************)
EXTENDS Naturals, Sequences, FiniteSets

VARIABLES tags, questions, question, call, ret

vars == <<tags, questions, question, call, ret>>

-----------------------------------------------------------------------------
(* Bounds of the model.                                                    *)

\* Number of distinct tag strings the caller draws from.
MaxTags == 2

\* Number of distinct context strings, and of option strings.
MaxItems == 2

-----------------------------------------------------------------------------
(* Values.                                                                 *)

\* Rust's Option and Result, and the unit value the mutators return.
None == [tag |-> "None"]
Some(v) == [tag |-> "Some", val |-> v]
Ok(v) == [tag |-> "Ok", val |-> v]
Err(e) == [tag |-> "Err", err |-> e]
Unit == [tag |-> "Unit"]
\* A plain (non-Result) return value.
Value(v) == [tag |-> "Value", val |-> v]

\* No call is in progress and no result is held.
Idle == [op |-> "idle"]

\* The error enums.  AddTagErrors, AddQuestionError and SetDecisionError
\* each have their own AlreadyExists variant.
AlreadyExists == [kind |-> "AlreadyExists"]
UsesNonExistentTags(response) == [kind |-> "UsesNonExistentTags", response |-> response]
InvalidUUID == [kind |-> "InvalidUUID"]
DoesNotExist == [kind |-> "DoesNotExist"]

\* Tag, content, context and option strings are only ever compared for
\* equality and hashed, so they are modelled as opaque strings.
TagNames == <<"Luke'sFunProjectA", "Luke'sOtherFunProject", "AriesThing", "AdasEndeavor">>
TagPool == {TagNames[i] : i \in 1..MaxTags}
ItemNames == <<"Red", "Blue", "Green">>
ContextPool == {ItemNames[i] : i \in 1..MaxItems}
OptionPool == {ItemNames[i] : i \in 1..MaxItems}
ContentPool == {"Pick a color?"}

Decision(choice, rationale, decision_makers) ==
    [choice |-> choice, rationale |-> rationale, decision_makers |-> decision_makers]
DecisionList == <<Decision("Red", "favorite", {"Luke"}), Decision("Blue", "calm", {"Luke", "Ada"})>>
DecisionPool == {DecisionList[i] : i \in DOMAIN DecisionList}

-----------------------------------------------------------------------------
(* Uuid and its string form.  A Uuid is a fixed-length sequence of hex     *)
(* digits (nibbles, 0..15); the model keeps two of the 32.  A string is a  *)
(* sequence of characters.                                                 *)

HexLower == <<"0","1","2","3","4","5","6","7","8","9","a","b","c","d","e","f">>
HexUpper == <<"0","1","2","3","4","5","6","7","8","9","A","B","C","D","E","F">>

\* The k-th identifier new_v4 may draw: 00, 0a, 14, ...
UuidOf(k) == <<(10 * k) \div 16, (10 * k) % 16>>
UuidPool == {UuidOf(0), UuidOf(1)}
\* A well-formed identifier that new_v4 never draws here.
StrangerUuid == <<15, 15>>
UuidLen == Len(UuidOf(0))

\* Uuid's Display: lower-case hex digits, hyphenated (here after the first
\* digit, as the real form is after the eighth).
to_string(uuid) ==
    <<HexLower[uuid[1] + 1], "-">> \o [i \in 1..(Len(uuid) - 1) |-> HexLower[uuid[i + 1] + 1]]

IsHex(c) == \E i \in 1..16 : HexLower[i] = c \/ HexUpper[i] = c
HexValue(c) == (CHOOSE i \in 1..16 : HexLower[i] = c \/ HexUpper[i] = c) - 1

\* Uuid::from_str: accepts the hyphenated and the simple form, in either
\* letter case; anything else is an error.
from_str(s) ==
    IF Len(s) = UuidLen /\ \A i \in 1..Len(s) : IsHex(s[i])
    THEN Ok([i \in 1..UuidLen |-> HexValue(s[i])])
    ELSE IF /\ Len(s) = UuidLen + 1
            /\ s[2] = "-"
            /\ \A i \in (1..Len(s)) \ {2} : IsHex(s[i])
    THEN Ok([i \in 1..UuidLen |-> HexValue(s[IF i = 1 THEN 1 ELSE i + 1])])
    ELSE Err(InvalidUUID)

-----------------------------------------------------------------------------
(* Question.                                                               *)

Question_new(identifier, content, q_tags, context, options) ==
    [identifier |-> identifier, content |-> content, tags |-> q_tags,
     context |-> context, options |-> options, decision |-> None]

\* add_context that assigns the set instead of inserting into it.
Question_add_context_assigning(self, context_item) ==
    [self EXCEPT !.context = {context_item}]

Question_add_context(self, context_item) ==
    [self EXCEPT !.context = @ \cup {context_item}]

Question_get_context(self) == self.context

Question_add_option(self, option) ==
    [self EXCEPT !.options = @ \cup {option}]

Question_get_options(self) == self.options

\* set_decision that overwrites a decision already present.
Question_set_decision_overwriting(self, decision) ==
    [self |-> [self EXCEPT !.decision = Some(decision)], result |-> Ok(Unit)]

\* Returns the question after the call and the call's result.
Question_set_decision(self, decision) ==
    IF self.decision = None
    THEN [self |-> [self EXCEPT !.decision = Some(decision)], result |-> Ok(Unit)]
    ELSE [self |-> self, result |-> Err(AlreadyExists)]

Question_get_decision(self) == self.decision

\* for_each over a HashSet of strings: the inserts commute, so the order of
\* iteration does not show.
RECURSIVE AddContexts(_, _)
AddContexts(self, items) ==
    IF items = {} THEN self
    ELSE LET x == CHOOSE x \in items : TRUE
         IN AddContexts(Question_add_context(self, x), items \ {x})

RECURSIVE AddOptions(_, _)
AddOptions(self, items) ==
    IF items = {} THEN self
    ELSE LET x == CHOOSE x \in items : TRUE
         IN AddOptions(Question_add_option(self, x), items \ {x})

\* The Question values the caller submits to add_question: built with
\* Question::new and the mutators (QuestionSpec reaches each of them), with
\* context, options and decision drawn from the first value of their pools.
Questions ==
    [identifier : UuidPool, content : ContentPool, tags : SUBSET TagPool,
     context : SUBSET {ItemNames[1]}, options : SUBSET {ItemNames[1]},
     decision : {None, Some(DecisionList[1])}]

-----------------------------------------------------------------------------
(* Registry.                                                               *)

\* HashMap::insert.
Insert(map, key, value) ==
    [k \in DOMAIN map \cup {key} |-> IF k = key THEN value ELSE map[k]]

\* The orders in which a HashSet of the given elements may be iterated.
Orders(set) ==
    {s \in [1..Cardinality(set) -> set] : \A i, j \in DOMAIN s : i # j => s[i] # s[j]}

Registry_get_tags(self_tags) == self_tags

\* get_question that looks the parsed identifier up but reports every
\* failure as DoesNotExist.
Registry_get_question_one_error(self_questions, identifier) ==
    LET parsed == from_str(identifier)
    IN IF parsed.tag = "Ok" /\ parsed.val \in DOMAIN self_questions
       THEN Ok(self_questions[parsed.val])
       ELSE Err(DoesNotExist)

\* get_question on a registry whose question map is self_questions; the
\* returned Question is a clone, a value of its own.
Registry_get_question(self_questions, identifier) ==
    LET parsed == from_str(identifier)
    IN IF parsed.tag = "Ok"
       THEN IF parsed.val \in DOMAIN self_questions
            THEN Ok(self_questions[parsed.val])
            ELSE Err(DoesNotExist)
       ELSE Err(InvalidUUID)

\* The identifier strings a caller passes: the rendering of every pool
\* identifier, its upper-case and simple forms, and malformed strings.
Upper(s) == [i \in DOMAIN s |-> IF IsHex(s[i]) THEN HexUpper[HexValue(s[i]) + 1] ELSE s[i]]
Simple(s) == SelectSeq(s, LAMBDA c : c # "-")
NotAUuid == <<"n","o","t","-","a","-","u","u","i","d">>
IdStrings ==
    {to_string(u) : u \in UuidPool}
    \cup {Upper(to_string(u)) : u \in UuidPool}
    \cup {Simple(to_string(UuidOf(0))), to_string(StrangerUuid)}
    \cup {NotAUuid, SubSeq(to_string(UuidOf(0)), 1, UuidLen), <<"0", "-", "g">>}

\* add_tag without the contains check: the insert is unconditional and the
\* call always reports success.
add_tag_unchecked(tag) ==
    /\ call = Idle
    /\ call' = [op |-> "add_tag", tag |-> tag]
    /\ tags' = tags \cup {tag}
    /\ ret' = Ok(TRUE)
    /\ UNCHANGED <<questions, question>>

\* add_tag that replaces the tag set instead of inserting into it.
add_tag_replacing(tag) ==
    /\ call = Idle
    /\ call' = [op |-> "add_tag", tag |-> tag]
    /\ IF tag \in tags
       THEN /\ ret' = Err(AlreadyExists)
            /\ UNCHANGED tags
       ELSE /\ tags' = {tag}
            /\ ret' = Ok(TRUE)
    /\ UNCHANGED <<questions, question>>

add_tag(tag) ==
    /\ call = Idle
    /\ call' = [op |-> "add_tag", tag |-> tag]
    /\ IF tag \in tags
       THEN /\ ret' = Err(AlreadyExists)
            /\ UNCHANGED tags
       ELSE /\ tags' = tags \cup {tag}
            /\ ret' = Ok(TRUE)
    /\ UNCHANGED <<questions, question>>

get_tags ==
    /\ call = Idle
    /\ call' = [op |-> "get_tags"]
    /\ ret' = Value(Registry_get_tags(tags))
    /\ UNCHANGED <<tags, questions, question>>

\* add_question that reports success without inserting the question.
add_question_no_insert(q) ==
    LET tag_diff == q.tags \ tags
    IN /\ call = Idle
       /\ call' = [op |-> "add_question", question |-> q]
       /\ IF tag_diff # {}
          THEN /\ \E response \in Orders(tag_diff) :
                     ret' = Err(UsesNonExistentTags(response))
               /\ UNCHANGED questions
          ELSE IF q.identifier \in DOMAIN questions
          THEN /\ ret' = Err(AlreadyExists)
               /\ UNCHANGED questions
          ELSE /\ ret' = Ok(to_string(q.identifier))
               /\ UNCHANGED questions
       /\ UNCHANGED <<tags, question>>

\* add_question that reports only the first unknown tag it meets.
add_question_first_tag_only(q) ==
    LET tag_diff == q.tags \ tags
    IN /\ call = Idle
       /\ call' = [op |-> "add_question", question |-> q]
       /\ IF tag_diff # {}
          THEN /\ \E tag \in tag_diff :
                     ret' = Err(UsesNonExistentTags(<<tag>>))
               /\ UNCHANGED questions
          ELSE IF q.identifier \in DOMAIN questions
          THEN /\ ret' = Err(AlreadyExists)
               /\ UNCHANGED questions
          ELSE /\ questions' = Insert(questions, q.identifier, q)
               /\ ret' = Ok(to_string(q.identifier))
       /\ UNCHANGED <<tags, question>>

\* add_question without the contains_key check: HashMap::insert replaces the
\* question stored under the identifier.
add_question_overwriting(q) ==
    LET tag_diff == q.tags \ tags
    IN /\ call = Idle
       /\ call' = [op |-> "add_question", question |-> q]
       /\ IF tag_diff # {}
          THEN /\ \E response \in Orders(tag_diff) :
                     ret' = Err(UsesNonExistentTags(response))
               /\ UNCHANGED questions
          ELSE /\ questions' = Insert(questions, q.identifier, q)
               /\ ret' = Ok(to_string(q.identifier))
       /\ UNCHANGED <<tags, question>>

\* add_question without the tag check.
add_question_unchecked_tags(q) ==
    LET tag_diff == q.tags \ tags
    IN /\ call = Idle
       /\ call' = [op |-> "add_question", question |-> q]
       /\ IF q.identifier \in DOMAIN questions
          THEN /\ ret' = Err(AlreadyExists)
               /\ UNCHANGED questions
          ELSE /\ questions' = Insert(questions, q.identifier, q)
               /\ ret' = Ok(to_string(q.identifier))
       /\ UNCHANGED <<tags, question>>

\* add_question that looks for an identifier collision before it checks the
\* tags.
add_question_collision_first(q) ==
    LET tag_diff == q.tags \ tags
    IN /\ call = Idle
       /\ call' = [op |-> "add_question", question |-> q]
       /\ IF q.identifier \in DOMAIN questions
          THEN /\ ret' = Err(AlreadyExists)
               /\ UNCHANGED questions
          ELSE IF tag_diff # {}
          THEN /\ \E response \in Orders(tag_diff) :
                     ret' = Err(UsesNonExistentTags(response))
               /\ UNCHANGED questions
          ELSE /\ questions' = Insert(questions, q.identifier, q)
               /\ ret' = Ok(to_string(q.identifier))
       /\ UNCHANGED <<tags, question>>

add_question(q) ==
    LET tag_diff == q.tags \ tags
    IN /\ call = Idle
       /\ call' = [op |-> "add_question", question |-> q]
       /\ IF tag_diff # {}
          THEN /\ \E response \in Orders(tag_diff) :
                     ret' = Err(UsesNonExistentTags(response))
               /\ UNCHANGED questions
          ELSE IF q.identifier \in DOMAIN questions
          THEN /\ ret' = Err(AlreadyExists)
               /\ UNCHANGED questions
          ELSE LET identifier == to_string(q.identifier)
               IN /\ questions' = Insert(questions, q.identifier, q)
                  /\ ret' = Ok(identifier)
       /\ UNCHANGED <<tags, question>>

get_question(identifier) ==
    /\ call = Idle
    /\ call' = [op |-> "get_question", identifier |-> identifier]
    /\ ret' = Registry_get_question(questions, identifier)
    /\ UNCHANGED <<tags, questions, question>>

\* add_question_context that hands the lookup error back to the caller.
add_question_context_propagating(identifier, new_contexts) ==
    LET got == Registry_get_question(questions, identifier)
    IN /\ call = Idle
       /\ call' = [op |-> "add_question_context", identifier |-> identifier,
                   new_contexts |-> new_contexts]
       /\ ret' = IF got.tag = "Ok" THEN Unit ELSE got
       /\ UNCHANGED <<tags, questions, question>>

\* The three mutators take &self and work on the clone get_question
\* returned; the clone is dropped at the end of the match arm.  (As
\* written, set_question_decision names self.get_question without calling
\* it; it is read as the call its two siblings make.)
add_question_context(identifier, new_contexts) ==
    LET got == Registry_get_question(questions, identifier)
        mutated == IF got.tag = "Ok" THEN AddContexts(got.val, new_contexts) ELSE None
    IN /\ call = Idle
       /\ call' = [op |-> "add_question_context", identifier |-> identifier,
                   new_contexts |-> new_contexts]
       /\ ret' = Unit
       /\ UNCHANGED <<tags, questions, question>>

add_question_option(identifier, new_options) ==
    LET got == Registry_get_question(questions, identifier)
        mutated == IF got.tag = "Ok" THEN AddOptions(got.val, new_options) ELSE None
    IN /\ call = Idle
       /\ call' = [op |-> "add_question_option", identifier |-> identifier,
                   new_options |-> new_options]
       /\ ret' = Unit
       /\ UNCHANGED <<tags, questions, question>>

\* set_question_decision that writes the decision into the stored question
\* whether or not it already has one.
set_question_decision_overwriting(identifier, decision) ==
    LET got == Registry_get_question(questions, identifier)
    IN /\ call = Idle
       /\ call' = [op |-> "set_question_decision", identifier |-> identifier,
                   decision |-> decision]
       /\ ret' = Unit
       /\ questions' = IF got.tag = "Ok"
                       THEN Insert(questions, got.val.identifier,
                                   [got.val EXCEPT !.decision = Some(decision)])
                       ELSE questions
       /\ UNCHANGED <<tags, question>>

set_question_decision(identifier, decision) ==
    LET got == Registry_get_question(questions, identifier)
        mutated == IF got.tag = "Ok" THEN Question_set_decision(got.val, decision).self ELSE None
    IN /\ call = Idle
       /\ call' = [op |-> "set_question_decision", identifier |-> identifier,
                   decision |-> decision]
       /\ ret' = Unit
       /\ UNCHANGED <<tags, questions, question>>

\* The caller drops the result of the last call (as the tests do with the
\* results of add_tag and add_question) and is ready for the next one.
Drop ==
    /\ call # Idle
    /\ call' = Idle
    /\ ret' = Unit
    /\ UNCHANGED <<tags, questions, question>>

\* Registry::new, before any call.
Init ==
    /\ tags = {}
    /\ questions = <<>>
    /\ question = None
    /\ call = Idle
    /\ ret = Unit

Next ==
    \/ \E tag \in TagPool : add_tag(tag)
    \/ get_tags
    \/ \E q \in Questions : add_question(q)
    \/ \E identifier \in IdStrings : get_question(identifier)
    \/ \E identifier \in IdStrings, new_contexts \in SUBSET ContextPool :
           add_question_context(identifier, new_contexts)
    \/ \E identifier \in IdStrings, new_options \in SUBSET OptionPool :
           add_question_option(identifier, new_options)
    \/ \E identifier \in IdStrings, decision \in DecisionPool :
           set_question_decision(identifier, decision)
    \/ Drop

Spec == Init /\ [][Next]_vars

-----------------------------------------------------------------------------
(* One owned Question, driven directly by its holder.                      *)

\* add_context on a Question that shares its state with the Registry's
\* stored instance instead of being a clone of it.
add_context_through_alias(context_item) ==
    /\ call = Idle
    /\ call' = [op |-> "add_context", context_item |-> context_item]
    /\ question' = Question_add_context(question, context_item)
    /\ questions' = [u \in DOMAIN questions |->
                        IF u = question.identifier
                        THEN Question_add_context(questions[u], context_item)
                        ELSE questions[u]]
    /\ ret' = Unit
    /\ UNCHANGED tags

add_context(context_item) ==
    /\ call = Idle
    /\ call' = [op |-> "add_context", context_item |-> context_item]
    /\ question' = Question_add_context(question, context_item)
    /\ ret' = Unit
    /\ UNCHANGED <<tags, questions>>

get_context ==
    /\ call = Idle
    /\ call' = [op |-> "get_context"]
    /\ ret' = Value(Question_get_context(question))
    /\ UNCHANGED <<tags, questions, question>>

add_option(option) ==
    /\ call = Idle
    /\ call' = [op |-> "add_option", option |-> option]
    /\ question' = Question_add_option(question, option)
    /\ ret' = Unit
    /\ UNCHANGED <<tags, questions>>

get_options ==
    /\ call = Idle
    /\ call' = [op |-> "get_options"]
    /\ ret' = Value(Question_get_options(question))
    /\ UNCHANGED <<tags, questions, question>>

set_decision(decision) ==
    LET done == Question_set_decision(question, decision)
    IN /\ call = Idle
       /\ call' = [op |-> "set_decision", decision |-> decision]
       /\ question' = done.self
       /\ ret' = done.result
       /\ UNCHANGED <<tags, questions>>

get_decision ==
    /\ call = Idle
    /\ call' = [op |-> "get_decision"]
    /\ ret' = Value(Question_get_decision(question))
    /\ UNCHANGED <<tags, questions, question>>

\* Question::new, with no Registry in play.
QuestionInit ==
    /\ tags = {}
    /\ questions = <<>>
    /\ \E identifier \in UuidPool, content \in ContentPool, q_tags \in SUBSET TagPool,
          context \in SUBSET ContextPool, options \in SUBSET OptionPool :
           question = Question_new(identifier, content, q_tags, context, options)
    /\ call = Idle
    /\ ret = Unit

QuestionNext ==
    \/ \E context_item \in ContextPool : add_context(context_item)
    \/ get_context
    \/ \E option \in OptionPool : add_option(option)
    \/ get_options
    \/ \E decision \in DecisionPool : set_decision(decision)
    \/ get_decision
    \/ Drop

QuestionSpec == QuestionInit /\ [][QuestionNext]_vars

-----------------------------------------------------------------------------
(* A Registry whose caller keeps what get_question returned.               *)

\* `Ok(mut question) =>`: the caller binds the Question that the last
\* get_question returned.
Bind ==
    /\ call.op = "get_question"
    /\ ret.tag = "Ok"
    /\ question' = ret.val
    /\ call' = Idle
    /\ ret' = Unit
    /\ UNCHANGED <<tags, questions>>

\* No tag is registered here, so the questions submitted have none.
CopyNext ==
    \/ \E q \in {x \in Questions : x.tags = {}} : add_question(q)
    \/ \E identifier \in IdStrings : get_question(identifier)
    \/ Bind
    \/ question # None /\ \E context_item \in ContextPool : add_context(context_item)
    \/ question # None /\ \E option \in OptionPool : add_option(option)
    \/ question # None /\ \E decision \in DecisionPool : set_decision(decision)
    \/ Drop

CopySpec == Init /\ [][CopyNext]_vars

-----------------------------------------------------------------------------
(* Properties.                                                             *)

\* The elements of a sequence.
Range(s) == {s[i] : i \in DOMAIN s}

\* Lower-case form of a string.
Lower(s) == [i \in DOMAIN s |-> IF \E k \in 1..16 : HexUpper[k] = s[i]
                                 THEN HexLower[CHOOSE k \in 1..16 : HexUpper[k] = s[i]]
                                 ELSE s[i]]

\* The characters a hex digit may be written with.
HexChars == Range(HexLower) \cup Range(HexUpper)

\* String s has the shape of an identifier: UuidLen hex digits, with or
\* without the hyphen after the first.
WellFormed(s) ==
    \/ Len(s) = UuidLen /\ Range(s) \subseteq HexChars
    \/ /\ Len(s) = UuidLen + 1
       /\ s[2] = "-"
       /\ Range(<<s[1]>> \o SubSeq(s, 3, Len(s))) \subseteq HexChars

\* String s is a rendering of identifier u: its hyphenated or its simple
\* form, in either letter case.
Denotes(s, u) == Lower(s) = to_string(u) \/ Lower(s) = Simple(to_string(u))
Admitted(s) == \E u \in DOMAIN questions : Denotes(s, u)

MutatorOps == {"add_question_context", "add_question_option", "set_question_decision"}

\* C1: a question whose tags are all registered and whose identifier is not
\* yet stored is admitted by add_question, which returns the string rendering
\* of its identifier; get_question with that string then returns a question
\* equal to it in every field.
C1_AddThenGet ==
    [][(/\ call'.op = "add_question"
        /\ call'.question.tags \subseteq tags
        /\ call'.question.identifier \notin DOMAIN questions)
       => /\ ret' = Ok(to_string(call'.question.identifier))
          /\ LET got == Registry_get_question(questions', ret'.val)
             IN /\ got.tag = "Ok"
                /\ got.val.identifier = call'.question.identifier
                /\ got.val.content = call'.question.content
                /\ got.val.tags = call'.question.tags
                /\ got.val.context = call'.question.context
                /\ got.val.options = call'.question.options
                /\ got.val.decision = call'.question.decision]_vars

\* A question with tags, context, options and a decision was admitted next
\* to an earlier one and reads back equal.
C1_Witness ==
    /\ call.op = "add_question"
    /\ ret.tag = "Ok"
    /\ call.question.tags # {}
    /\ call.question.context # {}
    /\ call.question.options # {}
    /\ call.question.decision # None
    /\ Cardinality(DOMAIN questions) = 2
    /\ Registry_get_question(questions, ret.val) = Ok(call.question)

\* C2: add_question of a question with at least one unregistered tag fails
\* with UsesNonExistentTags(missing), where missing lists exactly the
\* question's unregistered tags, each once, and neither the questions nor
\* the tags of the registry change.
C2_UnknownTagsRejected ==
    [][(/\ call'.op = "add_question"
        /\ call'.question.tags \ tags # {})
       => /\ ret'.tag = "Err"
          /\ ret'.err.kind = "UsesNonExistentTags"
          /\ Range(ret'.err.response) = call'.question.tags \ tags
          /\ Len(ret'.err.response) = Cardinality(call'.question.tags \ tags)
          /\ questions' = questions
          /\ tags' = tags]_vars

\* A question with one registered and one unregistered tag was rejected by a
\* registry that already holds a question.
C2_Witness ==
    /\ call.op = "add_question"
    /\ ret.tag = "Err"
    /\ ret.err.kind = "UsesNonExistentTags"
    /\ call.question.tags \cap tags # {}
    /\ Len(ret.err.response) >= 1
    /\ DOMAIN questions # {}

\* C3: set_question_decision on an admitted question attaches the decision
\* to the stored question if and only if it has none yet, and preserves an
\* existing one; a subsequent get_question returns the question with the
\* decision that was set first.
C3_DecisionAttached ==
    [][(/\ call'.op = "set_question_decision"
        /\ Registry_get_question(questions, call'.identifier).tag = "Ok")
       => LET before == Registry_get_question(questions, call'.identifier).val
          IN Registry_get_question(questions', call'.identifier) =
                 Ok(IF before.decision = None
                    THEN [before EXCEPT !.decision = Some(call'.decision)]
                    ELSE before)]_vars

\* C4: after add_question_context on an admitted question, get_question
\* returns the question with its previous context united with new_contexts.
C4_ContextStored ==
    [][(/\ call'.op = "add_question_context"
        /\ Registry_get_question(questions, call'.identifier).tag = "Ok")
       => LET before == Registry_get_question(questions, call'.identifier).val
          IN Registry_get_question(questions', call'.identifier) =
                 Ok([before EXCEPT !.context = @ \cup call'.new_contexts])]_vars

\* C5: after add_question_option on an admitted question, get_question
\* returns the question with its previous options united with new_options.
C5_OptionsStored ==
    [][(/\ call'.op = "add_question_option"
        /\ Registry_get_question(questions, call'.identifier).tag = "Ok")
       => LET before == Registry_get_question(questions, call'.identifier).val
          IN Registry_get_question(questions', call'.identifier) =
                 Ok([before EXCEPT !.options = @ \cup call'.new_options])]_vars

\* C6: on a Question the first set_decision succeeds and stores the
\* decision; a later set_decision, with the same or another decision, fails
\* with AlreadyExists and leaves the question unchanged, so get_decision
\* still returns the first decision.
C6_WriteOnce ==
    [][call'.op = "set_decision"
       => IF question.decision = None
          THEN /\ ret' = Ok(Unit)
               /\ Question_get_decision(question') = Some(call'.decision)
               /\ question' = [question EXCEPT !.decision = Some(call'.decision)]
          ELSE /\ ret' = Err(AlreadyExists)
               /\ question' = question
               /\ Question_get_decision(question') = Question_get_decision(question)]_vars

\* A second set_decision, with another decision than the one held, failed.
C6_Witness ==
    /\ call.op = "set_decision"
    /\ ret = Err(AlreadyExists)
    /\ question.decision # None
    /\ question.decision # Some(call.decision)

\* C7: add_tag of a tag not yet registered succeeds, and get_tags then
\* contains the tag and every tag registered before.
C7_AddTag ==
    [][(call'.op = "add_tag" /\ call'.tag \notin tags)
       => /\ ret' = Ok(TRUE)
          /\ call'.tag \in Registry_get_tags(tags')
          /\ tags \subseteq Registry_get_tags(tags')]_vars

\* A tag was added to a registry that already had one.
C7_Witness ==
    /\ call.op = "add_tag"
    /\ ret = Ok(TRUE)
    /\ call.tag \in tags
    /\ tags # {call.tag}

\* C8: add_tag of a tag already registered fails with AlreadyExists and
\* leaves the tag set unchanged.
C8_AddExistingTag ==
    [][(call'.op = "add_tag" /\ call'.tag \in tags)
       => /\ ret' = Err(AlreadyExists)
          /\ tags' = tags
          /\ call'.tag \in tags']_vars

\* A registered tag was added again and refused.
C8_Witness ==
    /\ call.op = "add_tag"
    /\ ret = Err(AlreadyExists)
    /\ call.tag \in tags

\* C9: get_question fails with InvalidUUID on a malformed identifier string,
\* with DoesNotExist on a well-formed one that no admitted question has, and
\* succeeds otherwise; the two errors differ and the malformed check comes
\* first.
C9_LookupErrors ==
    /\ InvalidUUID # DoesNotExist
    /\ call.op = "get_question"
       => IF ~WellFormed(call.identifier) THEN ret = Err(InvalidUUID)
          ELSE IF ~Admitted(call.identifier) THEN ret = Err(DoesNotExist)
          ELSE ret.tag = "Ok" /\ Denotes(call.identifier, ret.val.identifier)

\* A malformed identifier was looked up in a registry that holds questions.
C9_Witness ==
    /\ call.op = "get_question"
    /\ ret = Err(InvalidUUID)
    /\ DOMAIN questions # {}

\* C10: when the identifier given to add_question_context,
\* add_question_option or set_question_decision does not resolve, the call
\* returns no error and leaves the registry's tags and questions unchanged.
C10_UnresolvedIsNoOp ==
    [][(/\ call'.op \in MutatorOps
        /\ Registry_get_question(questions, call'.identifier).tag = "Err")
       => /\ ret' = Unit
          /\ tags' = tags
          /\ questions' = questions]_vars

\* add_question_context was called with a well-formed identifier that no
\* admitted question has, on a registry that holds a question.
C10_Witness ==
    /\ call.op = "add_question_context"
    /\ call.new_contexts # {}
    /\ Registry_get_question(questions, call.identifier) = Err(DoesNotExist)
    /\ DOMAIN questions # {}
    /\ ret = Unit

\* The calls a holder makes on a Question of its own.
QuestionMutatorOps == {"add_context", "add_option", "set_decision"}

\* C11: the Question get_question returned is an independent snapshot:
\* add_context, add_option or set_decision applied to the returned copy
\* leaves what get_question returns, for every identifier, as it was.
C11_SnapshotIndependent ==
    [][(call'.op \in QuestionMutatorOps /\ question # None)
       => \A identifier \in IdStrings :
              Registry_get_question(questions', identifier) =
                  Registry_get_question(questions, identifier)]_vars

\* The caller holds a copy of an admitted question, has just given it a
\* decision, and the copy's context, options and decision all differ from
\* the stored question's.
C11_Witness ==
    /\ call.op = "set_decision"
    /\ ret = Ok(Unit)
    /\ question # None
    /\ question.identifier \in DOMAIN questions
    /\ question.context # questions[question.identifier].context
    /\ question.options # questions[question.identifier].options
    /\ question.decision # questions[question.identifier].decision

\* C12: add_question of a question whose tags are all registered but whose
\* identifier is already a key of the registry fails with AlreadyExists, and
\* the question stored under that identifier, like the rest of the registry,
\* is unchanged.
C12_CollisionRejected ==
    [][(/\ call'.op = "add_question"
        /\ call'.question.tags \subseteq tags
        /\ call'.question.identifier \in DOMAIN questions)
       => /\ ret' = Err(AlreadyExists)
          /\ questions'[call'.question.identifier] = questions[call'.question.identifier]
          /\ questions' = questions
          /\ tags' = tags]_vars

\* A question other than the one stored under its identifier was refused.
C12_Witness ==
    /\ call.op = "add_question"
    /\ ret = Err(AlreadyExists)
    /\ call.question.identifier \in DOMAIN questions
    /\ call.question # questions[call.question.identifier]

\* C13: add_context of a string already in a Question's context, and
\* add_option of a string already in its options, leave the set unchanged:
\* adding the string twice gives the set that adding it once gives.
C13_AddIsIdempotent ==
    [][/\ (call'.op = "add_context" /\ call'.context_item \in Question_get_context(question))
          => Question_get_context(question') = Question_get_context(question)
       /\ call'.op = "add_context"
          => Question_get_context(Question_add_context(question', call'.context_item))
                 = Question_get_context(question')
       /\ (call'.op = "add_option" /\ call'.option \in Question_get_options(question))
          => Question_get_options(question') = Question_get_options(question)
       /\ call'.op = "add_option"
          => Question_get_options(Question_add_option(question', call'.option))
                 = Question_get_options(question')]_vars

\* add_context returned on a Question whose context holds the string added
\* and another one, so that adding the string again finds it present.
C13_Witness ==
    /\ call.op = "add_context"
    /\ call.context_item \in question.context
    /\ question.context # {call.context_item}
    /\ question.options # {}

\* C14: once a stored question has a decision, it keeps that decision in
\* every later state, whatever registry operation follows.
C14_DecisionPermanent ==
    [][\A u \in DOMAIN questions :
           questions[u].decision # None
           => /\ u \in DOMAIN questions'
              /\ questions'[u].decision = questions[u].decision]_vars

\* set_question_decision was called with another decision on a stored
\* question that has one.
C14_Witness ==
    /\ call.op = "set_question_decision"
    /\ Registry_get_question(questions, call.identifier).tag = "Ok"
    /\ Registry_get_question(questions, call.identifier).val.decision # None
    /\ Registry_get_question(questions, call.identifier).val.decision # Some(call.decision)

\* C15: in every reachable state every stored question's tag set is a subset
\* of the registry's tag set.
C15_TagsRegistered ==
    \A u \in DOMAIN questions : questions[u].tags \subseteq tags

\* Two questions with tags are stored, one of them with every tag.
C15_Witness ==
    /\ Cardinality(DOMAIN questions) = 2
    /\ \A u \in DOMAIN questions : questions[u].tags # {}
    /\ \E u \in DOMAIN questions : questions[u].tags = TagPool

\* C16: the registry starts empty and only grows: a step never removes a tag
\* from the tag set nor an identifier from the admitted questions.
C16_OnlyGrows ==
    /\ tags = {} /\ DOMAIN questions = {}
    /\ [][/\ tags \subseteq tags'
          /\ DOMAIN questions \subseteq DOMAIN questions']_vars

\* Every tag is registered and two questions are stored.
C16_Witness ==
    /\ tags = TagPool
    /\ Cardinality(DOMAIN questions) = 2
    /\ call.op = "add_tag"
    /\ ret = Ok(TRUE)

\* C17: get_question succeeds for an identifier exactly when an earlier
\* add_question of a question with that identifier succeeded: it succeeds
\* for none at the start, a step makes it succeed for an identifier exactly
\* if the step is a successful add_question of a question with it (so the
\* very next call sees it), and it never stops succeeding.
C17_ReachableIffAdmitted ==
    /\ \A identifier \in IdStrings :
           Registry_get_question(questions, identifier).tag = "Err"
    \* A step that leaves the questions as they are and is no successful
    \* add_question satisfies the body for every identifier, so only the
    \* other steps are looked at.
    /\ [][(questions' # questions \/ (call'.op = "add_question" /\ ret'.tag = "Ok"))
          => \A identifier \in IdStrings :
                 LET before == Registry_get_question(questions, identifier).tag = "Ok"
                     after == Registry_get_question(questions', identifier).tag = "Ok"
                 IN /\ before => after
                    /\ (~before /\ after)
                       <=> /\ call'.op = "add_question"
                           /\ ret' = Ok(to_string(call'.question.identifier))
                           /\ Denotes(identifier, call'.question.identifier)]_vars

\* get_question succeeded with an upper-case identifier for the second
\* question admitted.
C17_Witness ==
    /\ call.op = "get_question"
    /\ ret.tag = "Ok"
    /\ call.identifier # to_string(ret.val.identifier)
    /\ Cardinality(DOMAIN questions) = 2

\* C18: add_question checks the tags before the identifier: a question with
\* an unregistered tag and an identifier already stored fails with
\* UsesNonExistentTags, not with AlreadyExists.
C18_TagsBeforeCollision ==
    [][(/\ call'.op = "add_question"
        /\ call'.question.tags \ tags # {}
        /\ call'.question.identifier \in DOMAIN questions)
       => /\ ret'.tag = "Err"
          /\ ret'.err.kind = "UsesNonExistentTags"
          /\ ret' # Err(AlreadyExists)]_vars

\* A question with an unregistered tag and a stored identifier was refused.
C18_Witness ==
    /\ call.op = "add_question"
    /\ call.question.identifier \in DOMAIN questions
    /\ call.question.tags \ tags # {}
    /\ ret.tag = "Err"
    /\ ret.err.kind = "UsesNonExistentTags"

\* C19: add_tag, successful or not, never changes the questions;
\* add_question, successful or not, never changes the tags; a successful
\* add_question leaves every question stored before unchanged; get_tags and
\* get_question change neither.
C19_Frame ==
    [][/\ call'.op = "add_tag" => questions' = questions
       /\ call'.op = "add_question" => tags' = tags
       /\ (call'.op = "add_question" /\ ret'.tag = "Ok")
          => \A u \in DOMAIN questions :
                 u \in DOMAIN questions' /\ questions'[u] = questions[u]
       /\ call'.op \in {"get_tags", "get_question"}
          => tags' = tags /\ questions' = questions]_vars

\* A question was admitted next to one stored before.
C19_Witness ==
    /\ call.op = "add_question"
    /\ ret.tag = "Ok"
    /\ Cardinality(DOMAIN questions) = 2
    /\ tags # {}

=============================================================================
